---- MODULE Spec2Model ----
(***************************************************************************)
(* Model of src/src/authorization.rs: the Authorization session (jwt and   *)
(* cookie jar), its cookie handling, the callback handler and the login /  *)
(* renew protocols, each blocking HTTP exchange being one step.            *)
(*                                                                         *)
(* Text is modelled as a sequence of tokens: a token is either one of the  *)
(* delimiter characters the code looks for ("=", ";", " ", "&", "#") or a  *)
(* run of other characters ("idsrv", "s1", ...).  Option<T> is a sequence  *)
(* of length at most one: None is << >> and Some(x) is <<x>>.              *)
(***************************************************************************)
EXTENDS Integers, Sequences, FiniteSets, TLC

VARIABLES
    jwt,        \* Authorization.jwt : Option<String>
    cookies,    \* Authorization.cookies : HashMap<String, String>
    pc,         \* where the running call is blocked ("idle": no call runs)
    op,         \* the public operation running or last run
    args,       \* login's (username, password) while login runs
    req,        \* the request in flight (method, url, Cookie header, form)
    result,     \* what the last call returned (or that it panicked)
    jwt0,       \* history: jwt when the running or last call was entered
    cookies0,   \* history: the jar when the call (or the merge) was entered
    log,        \* history: the steps of the running or last call, in order
    last,       \* history: the response received last
    cb,         \* history: the handle_callback invocation of this call
    merged      \* history: Set-Cookie headers merged since cookies0

vars == <<jwt, cookies, pc, op, args, req, result, jwt0, cookies0, log, last,
          cb, merged>>

---------------------------------------------------------------------------
(* Option<T> and token strings *)

None == << >>

Some(x) == <<x>>

IsNone(o) == o = << >>

EmptyMap == [n \in {} |-> << >>]

\* str::find: index of the first occurrence of token c in s, 0 if none.
IndexOf(s, c) ==
    IF \E i \in 1..Len(s) : s[i] = c
    THEN CHOOSE i \in 1..Len(s) : s[i] = c /\ \A j \in 1..(i - 1) : s[j] # c
    ELSE 0

Slice(s, m, n) == IF m > n THEN << >> ELSE SubSeq(s, m, n)

\* str::trim on token strings: whitespace is the token " ".
RECURSIVE TrimStart(_)
TrimStart(s) ==
    IF s # << >> /\ Head(s) = " " THEN TrimStart(Tail(s)) ELSE s

RECURSIVE TrimEnd(_)
TrimEnd(s) ==
    IF s # << >> /\ s[Len(s)] = " " THEN TrimEnd(Slice(s, 1, Len(s) - 1)) ELSE s

Trim(s) == TrimEnd(TrimStart(s))

\* The pieces of s between occurrences of the one-token separator c.
RECURSIVE SplitOn(_, _)
SplitOn(s, c) ==
    LET i == IndexOf(s, c)
    IN  IF i = 0 THEN <<s>>
        ELSE <<Slice(s, 1, i - 1)>> \o SplitOn(Slice(s, i + 1, Len(s)), c)

\* All enumerations (iteration orders) of a finite set.
Orders(S) ==
    {f \in [1..Cardinality(S) -> S] :
        \A i, j \in 1..Cardinality(S) : i # j => f[i] # f[j]}

---------------------------------------------------------------------------
(* Cookie jar *)

IDSRV == <<"idsrv">>

\* A byte outside visible ASCII: HeaderValue::to_str fails on it.
NonAscii == "0x80"

\* HeaderValue::to_str of a header value.
ToStrOk(h) == \A i \in 1..Len(h) : h[i] # NonAscii

\* cookie::Cookie::parse as add_cookie uses it: the part before the first
\* ";" is split on its first "="; name and value are trimmed; a missing "="
\* or an empty name is a parse error.  Attributes never fail the parse.
CookieParseKeepAttributes(h) ==
    LET eq == IndexOf(h, "=")
        name == Trim(Slice(h, 1, eq - 1))
        value == Trim(Slice(h, eq + 1, Len(h)))
    IN  IF eq = 0 \/ name = << >>
        THEN [ok |-> FALSE, name |-> << >>, value |-> << >>]
        ELSE [ok |-> TRUE, name |-> name, value |-> value]

CookieParse(h) ==
    LET semi == IndexOf(h, ";")
        kv == IF semi = 0 THEN h ELSE Slice(h, 1, semi - 1)
        eq == IndexOf(kv, "=")
        name == Trim(Slice(kv, 1, eq - 1))
        value == Trim(Slice(kv, eq + 1, Len(kv)))
    IN  IF eq = 0 \/ name = << >>
        THEN [ok |-> FALSE, name |-> << >>, value |-> << >>]
        ELSE [ok |-> TRUE, name |-> name, value |-> value]

\* HashMap::insert.
InsertKeepFirst(m, k, v) ==
    [n \in DOMAIN m \cup {k} |-> IF n \in DOMAIN m THEN m[n] ELSE v]

Insert(m, k, v) ==
    [n \in DOMAIN m \cup {k} |-> IF n = k THEN v ELSE m[n]]

\* add_cookie: parse (panic on a parse error) and insert name -> value.
add_cookie(jar, h) ==
    LET c == CookieParse(h)
    IN  IF c.ok
        THEN [panic |-> FALSE, jar |-> Insert(jar, c.name, c.value)]
        ELSE [panic |-> TRUE, jar |-> jar]

\* The Set-Cookie loop of http_get / http_post: headers are merged in arrival
\* order; a header that is not a string ends the exchange with Err, one that
\* does not parse panics; whatever was merged before stays in the jar.
RECURSIVE MergeSetCookies(_, _)
MergeSetCookies(jar, hs) ==
    IF hs = << >> THEN [status |-> "ok", jar |-> jar]
    ELSE IF ~ToStrOk(Head(hs)) THEN [status |-> "err", jar |-> jar]
    ELSE LET a == add_cookie(jar, Head(hs))
         IN  IF a.panic THEN [status |-> "panic", jar |-> jar]
             ELSE MergeSetCookies(a.jar, Tail(hs))

\* generate_cookie_header for one iteration order of the HashMap.
RECURSIVE RenderCookies(_, _)
RenderCookies(jar, ord) ==
    IF ord = << >> THEN << >>
    ELSE Head(ord) \o <<"=">> \o jar[Head(ord)] \o <<";", " ">>
         \o RenderCookies(jar, Tail(ord))

\* generate_cookie_header: the iteration order of a HashMap is unspecified,
\* so every order is a possible header.
generate_cookie_header(jar) ==
    {RenderCookies(jar, ord) : ord \in Orders(DOMAIN jar)}

---------------------------------------------------------------------------
(* URLs and results *)

Ok == [kind |-> "Ok", msg |-> "true"]

Err(m) == [kind |-> "Err", msg |-> m]

Panic(m) == [kind |-> "Panic", msg |-> m]

Pending == [kind |-> "Pending", msg |-> ""]

NoResult == [kind |-> "None", msg |-> ""]

AUTH_BASE_URL == <<"https://luminus.nus.edu.sg">>

DISCOVERY_PATH == <<"/v2/auth/.well-known/openid-configuration">>

\* References without a scheme: Url::parse rejects them (no base is given).
RelativeRefs == {"/account/login", "/relative"}

\* References that cannot even be joined to a base.
Unjoinable == {"https://[bad"}

\* Url::parse of a header or JSON string: absolute URLs only; the fragment is
\* what follows the first "#" (Some("") when nothing follows it).
UrlParse(s) ==
    LET i == IndexOf(s, "#")
        base == IF i = 0 THEN s ELSE Slice(s, 1, i - 1)
    IN  IF base = << >> \/ Head(base) \in RelativeRefs \cup Unjoinable
        THEN [ok |-> FALSE, base |-> << >>, query |-> << >>, frag |-> None]
        ELSE [ok |-> TRUE, base |-> base, query |-> << >>,
              frag |-> IF i = 0 THEN None ELSE Some(Slice(s, i + 1, Len(s)))]

\* full_auth_url: join a path to AUTH_BASE_URL; panics when the join fails.
full_auth_url(path) ==
    IF path = << >>
    THEN [ok |-> TRUE, base |-> AUTH_BASE_URL, query |-> << >>, frag |-> None]
    ELSE IF Head(path) \in Unjoinable
    THEN [ok |-> FALSE, base |-> << >>, query |-> << >>, frag |-> None]
    ELSE IF Head(path) \in RelativeRefs
    THEN [ok |-> TRUE, base |-> AUTH_BASE_URL \o path, query |-> << >>,
          frag |-> None]
    ELSE UrlParse(path)

\* generate_random_bytes(16), abstracted to two possible outcomes.
RandomHex == {"r1", "r2"}

\* add_auth_params: the query appended to the discovered endpoint.
add_auth_params(u, state, nonce) ==
    [u EXCEPT !.query = u.query \o
        << <<"state", state>>, <<"nonce", nonce>>, <<"client_id", "verso">>,
           <<"scope", "SCOPE">>, <<"response_type", "id_token token code">>,
           <<"redirect_uri", "https://luminus.nus.edu.sg/auth/callback">> >>]

\* A header lookup that would report a missing Location as an unreadable one.
get_redirect_url_unreadable(r) ==
    IF IsNone(r.location) \/ ~ToStrOk(r.location[1])
    THEN [ok |-> FALSE, url |-> UrlParse(<< >>),
          msg |-> "Unable to read location header"]
    ELSE IF ~UrlParse(r.location[1]).ok
    THEN [ok |-> FALSE, url |-> UrlParse(<< >>),
          msg |-> " Unable to parse the url of location"]
    ELSE [ok |-> TRUE, url |-> UrlParse(r.location[1]), msg |-> ""]

\* get_redirect_url: the Location header, read as a string, parsed as a URL.
get_redirect_url(r) ==
    IF IsNone(r.location)
    THEN [ok |-> FALSE, url |-> UrlParse(<< >>),
          msg |-> "Invalid response from server, expected redirection"]
    ELSE IF ~ToStrOk(r.location[1])
    THEN [ok |-> FALSE, url |-> UrlParse(<< >>),
          msg |-> "Unable to read location header"]
    ELSE IF ~UrlParse(r.location[1]).ok
    THEN [ok |-> FALSE, url |-> UrlParse(<< >>),
          msg |-> " Unable to parse the url of location"]
    ELSE [ok |-> TRUE, url |-> UrlParse(r.location[1]), msg |-> ""]

\* StatusCode::is_redirection: 300..399.
is_success(status) == status >= 200 /\ status <= 299

is_redirection(status) == status >= 300 /\ status <= 399

---------------------------------------------------------------------------
(* Callback handler *)

ID_TOKEN == <<"id_token">>

\* serde_urlencoded::from_str into HashMap<String, String>: pieces between
\* "&", empty pieces skipped, each split on its first "=" (no "=": empty
\* value); later pairs overwrite earlier ones.  It cannot fail for a map of
\* strings, so the map_err of line 136 is never taken.
RECURSIVE DecodePairs(_, _)
DecodePairs(m, pieces) ==
    IF pieces = << >> THEN m
    ELSE LET p == Head(pieces)
             eq == IndexOf(p, "=")
             k == IF eq = 0 THEN p ELSE Slice(p, 1, eq - 1)
             v == IF eq = 0 THEN << >> ELSE Slice(p, eq + 1, Len(p))
         IN  IF p = << >> THEN DecodePairs(m, Tail(pieces))
             ELSE DecodePairs(Insert(m, k, v), Tail(pieces))

from_str(fragment) == DecodePairs(EmptyMap, SplitOn(fragment, "&"))

\* Lines 138-140: the jar is replaced by one holding idsrv alone.
PruneKeepAll(jar) == jar

PruneDropAll(jar) == EmptyMap

PruneCookies(jar) == Insert(EmptyMap, IDSRV, jar[IDSRV])

\* A callback handler that would accept only a fragment whose state is one the
\* client can have generated.
handle_callback_checking_state(j, jar, callback_url) ==
    IF IsNone(callback_url.frag)
    THEN [jwt |-> j, cookies |-> jar, result |-> Err("Invalid callback")]
    ELSE LET response == from_str(callback_url.frag[1])
         IN  IF <<"state">> \notin DOMAIN response
                \/ response[<<"state">>] \notin {<<v>> : v \in RandomHex}
             THEN [jwt |-> j, cookies |-> jar,
                   result |-> Err("Invalid callback")]
             ELSE IF ID_TOKEN \notin DOMAIN response
             THEN [jwt |-> j, cookies |-> jar,
                   result |-> Panic("no entry found for key id_token")]
             ELSE IF IDSRV \notin DOMAIN jar
             THEN [jwt |-> Some(response[ID_TOKEN]), cookies |-> jar,
                   result |-> Panic("no entry found for key idsrv")]
             ELSE [jwt |-> Some(response[ID_TOKEN]),
                   cookies |-> PruneCookies(jar), result |-> Ok]

\* handle_callback on Session (j, jar): the Session after it and its outcome.
\* Indexing a HashMap with a missing key panics: response["id_token"] before
\* jwt is assigned, self.cookies["idsrv"] after it.
handle_callback(j, jar, callback_url) ==
    IF IsNone(callback_url.frag)
    THEN [jwt |-> j, cookies |-> jar, result |-> Err("Invalid callback")]
    ELSE LET response == from_str(callback_url.frag[1])
         IN  IF ID_TOKEN \notin DOMAIN response
             THEN [jwt |-> j, cookies |-> jar,
                   result |-> Panic("no entry found for key id_token")]
             ELSE IF IDSRV \notin DOMAIN jar
             THEN [jwt |-> Some(response[ID_TOKEN]), cookies |-> jar,
                   result |-> Panic("no entry found for key idsrv")]
             ELSE [jwt |-> Some(response[ID_TOKEN]),
                   cookies |-> PruneCookies(jar), result |-> Ok]

---------------------------------------------------------------------------
(* Login-page scraping and the login form *)

\* Lines 148-151 of auth_login_info on the login-page response: read the body,
\* take the last element with id modelJson, decode its HTML entities, decode
\* the JSON into LoginInfo.
Scrape(r) ==
    LET n == Len(r.body.modelJson)
    IN  IF ~r.body.readable
        THEN [ok |-> FALSE, msg |-> "Unable to read HTTP response body"]
        ELSE IF n = 0
        THEN [ok |-> FALSE, msg |-> "No JSON was sent"]
        ELSE IF ~r.body.modelJson[n].entities_ok
        THEN [ok |-> FALSE, msg |-> "Unable to decode HTML entities"]
        ELSE IF IsNone(r.body.modelJson[n].json)
        THEN [ok |-> FALSE, msg |-> "Unable to decode JSON"]
        ELSE [ok |-> TRUE, msg |-> "", info |-> r.body.modelJson[n].json[1]]

\* Login parameters that would leave the anti-forgery field out.
build_login_params_without_xsrf(xsrf, username, password) ==
    Insert(Insert(EmptyMap, "username", username), "password", password)

\* Xsrf::build_login_params: username, password, then the anti-forgery field.
build_login_params(xsrf, username, password) ==
    Insert(Insert(Insert(EmptyMap, "username", username),
                  "password", password),
           xsrf.name, xsrf.value)

---------------------------------------------------------------------------
(* What the provider may answer *)

H_idsrv1 == <<"idsrv", "=", "s1">>

H_idsrv2 == <<"idsrv", "=", "s2", ";", " ", "Path", "=", "/">>

H_a1 == <<"a", "=", "1">>

H_a2 == <<" ", "a", " ", "=", "2", ";", " ", "HttpOnly">>

H_bad == <<"garbage">>

H_nonascii == <<"a", "=", NonAscii>>

SetCookieLists ==
    { << >>, <<H_idsrv1>>, <<H_a1>>, <<H_a1, H_idsrv2, H_a2>>,
      <<H_a1, H_bad>>, <<H_a1, H_nonascii>> }

CALLBACK == "https://app/callback"

Locations ==
    { None,
      Some(<<NonAscii>>),
      Some(<<"/relative">>),
      Some(<<"https://idp/hop">>),
      Some(<<CALLBACK, "#">>),
      Some(<<CALLBACK, "#", "state", "=", "xyz">>),
      Some(<<CALLBACK, "#", "id_token", "=", "JWT123", "&", "state", "=", "xyz">>),
      Some(<<CALLBACK, "#", "id_token", "=", "ABC", "&", "state", "=", "xyz">>),
      Some(<<CALLBACK, "#", "id_token", "=", "ABC", "&", "id_token", "=", "JWT123">>) }

EmptyBody == [readable |-> TRUE, modelJson |-> << >>, discovery |-> None]

Page(blobs) == [readable |-> TRUE, modelJson |-> blobs, discovery |-> None]

Blob(path) ==
    [entities_ok |-> TRUE,
     json |-> Some([anti_forgery |-> [name |-> "__RequestVerificationToken",
                                      value |-> "t1"],
                    login_url |-> path])]

BadEntities == [entities_ok |-> FALSE, json |-> None]

BadJson == [entities_ok |-> TRUE, json |-> None]

PageBodies ==
    { [readable |-> FALSE, modelJson |-> << >>, discovery |-> None],
      EmptyBody,
      Page(<<BadEntities>>),
      Page(<<BadJson>>),
      Page(<<Blob(<<"/account/login">>)>>),
      Page(<<BadJson, Blob(<<"/account/login">>)>>),
      Page(<<Blob(<<"https://[bad">>)>>) }

DiscoveryBodies ==
    { EmptyBody,
      [readable |-> TRUE, modelJson |-> << >>,
       discovery |-> Some(<<"/relative">>)],
      [readable |-> TRUE, modelJson |-> << >>,
       discovery |-> Some(<<"https://idp/auth">>)] }

Failed ==
    [kind |-> "failed", status |-> 0, location |-> None,
     setCookies |-> << >>, body |-> EmptyBody]

NoResponse ==
    [kind |-> "none", status |-> 0, location |-> None,
     setCookies |-> << >>, body |-> EmptyBody]

Responses(statuses, locations, cookieLists, bodies) ==
    {Failed} \cup
    [kind : {"response"}, status : statuses, location : locations,
     setCookies : cookieLists, body : bodies]

\* Each step draws the fields it reads; the others have one typical value.
DiscoveryResponses ==
    Responses({200}, {None}, {<< >>, <<H_idsrv1>>}, DiscoveryBodies)

\* A discovery fetch answered by a redirection with a Location.
DiscoveryRedirects ==
    [kind : {"response"}, status : {302},
     location : {Some(<<"https://idp/hop">>)},
     setCookies : {<< >>, <<H_idsrv1>>}, body : {EmptyBody}]

AuthGetResponses == Responses({302}, Locations, SetCookieLists, {EmptyBody})

PageResponses == Responses({200, 500}, {None}, SetCookieLists, PageBodies)

PostResponses == Responses({200, 302}, Locations, SetCookieLists, {EmptyBody})

FollowResponses == Responses({302}, Locations, SetCookieLists, {EmptyBody})

Usernames == {"e0000000"}

Passwords == {"hunter2"}

---------------------------------------------------------------------------
(* The Session and the steps of login and renew *)

NoUrl == [ok |-> FALSE, base |-> << >>, query |-> << >>, frag |-> None]

\* The request in flight; redirects counts the redirections the client has
\* followed by itself for it (always 0 for the clients of build_client).
NoReq ==
    [method |-> "none", url |-> NoUrl, cookie |-> None, form |-> EmptyMap,
     redirects |-> 0]

\* Authorization::new
Init ==
    /\ jwt = None
    /\ cookies = EmptyMap
    /\ pc = "idle"
    /\ op = "none"
    /\ args = None
    /\ req = NoReq
    /\ result = NoResult
    /\ jwt0 = None
    /\ cookies0 = EmptyMap
    /\ log = << >>
    /\ last = NoResponse
    /\ cb = None
    /\ merged = << >>

\* A return path that would reset the token.
ReturnsClearingToken(res, j, c) ==
    /\ jwt' = None
    /\ cookies' = c
    /\ pc' = "idle"
    /\ result' = res
    /\ req' = NoReq
    /\ args' = None
    /\ UNCHANGED <<log, cb>>

\* The running call returns res (or unwinds with a panic), leaving (j, c).
\* A panic leaves the Session as it was when the panic was raised; a caller
\* that catches the unwinding still holds it and may call again.
Returns(res, j, c) ==
    /\ jwt' = j
    /\ cookies' = c
    /\ pc' = "idle"
    /\ result' = res
    /\ req' = NoReq
    /\ args' = None
    /\ UNCHANGED <<log, cb>>

\* http_get / http_post up to send(): build_client, then the request goes
\* out with the Cookie header generated from the jar as it stands.
HttpSend(next, method, url, form, c, clientOk, step) ==
    IF ~clientOk
    THEN Returns(Err("Unable to create HTTP client"), jwt, c)
    ELSE /\ \E h \in generate_cookie_header(c) :
                req' = [method |-> method, url |-> url, cookie |-> Some(h),
                        form |-> form, redirects |-> 0]
         /\ jwt' = jwt
         /\ cookies' = c
         /\ pc' = next
         /\ log' = Append(log, step)
         /\ UNCHANGED <<result, args, cb>>

\* An exchange that would ignore the Set-Cookie headers of its response.
HttpReceiveNoMerge(jar, r) ==
    IF r.kind = "failed"
    THEN [ok |-> FALSE, jar |-> jar, result |-> Err("Failed HTTP request")]
    ELSE [ok |-> TRUE, jar |-> jar, result |-> Ok]

\* http_get / http_post from the response on: a transport failure is Err;
\* otherwise the Set-Cookie headers are merged into the jar.
HttpReceive(jar, r) ==
    IF r.kind = "failed"
    THEN [ok |-> FALSE, jar |-> jar, result |-> Err("Failed HTTP request")]
    ELSE LET m == MergeSetCookies(jar, r.setCookies)
         IN  [ok |-> m.status = "ok", jar |-> m.jar,
              result |-> IF m.status = "err"
                         THEN Err("Unable to read set-cookie header")
                         ELSE IF m.status = "panic"
                         THEN Panic("Unable to parse cookie")
                         ELSE Ok]

\* auth_endpoint_uri from the discovery response on: every failure panics.
auth_endpoint_uri(d, state, nonce) ==
    IF d.kind = "failed" \/ ~d.body.readable \/ IsNone(d.body.discovery)
    THEN [ok |-> FALSE, url |-> NoUrl,
          msg |-> IF d.kind = "failed"
                  THEN "Failed to HTTP GET the discovery path"
                  ELSE "Unable to deserialize discovery json"]
    ELSE IF ~UrlParse(d.body.discovery[1]).ok
    THEN [ok |-> FALSE, url |-> NoUrl, msg |-> "Unable to parse discovery url"]
    ELSE [ok |-> TRUE, msg |-> "",
          url |-> add_auth_params(UrlParse(d.body.discovery[1]), state, nonce)]

\* A public operation is entered: reqwest::get(discovery_url) goes out, with
\* a client of its own and no Cookie header.
Enter(name, a, next) ==
    /\ pc = "idle"
    /\ op' = name
    /\ args' = a
    /\ jwt0' = jwt
    /\ cookies0' = cookies
    /\ result' = Pending
    /\ cb' = None
    /\ last' = NoResponse
    /\ req' = [method |-> "GET", url |-> full_auth_url(DISCOVERY_PATH),
               cookie |-> None, form |-> EmptyMap, redirects |-> 0]
    /\ log' = <<"GET discovery">>
    /\ pc' = next
    /\ UNCHANGED <<jwt, cookies, merged>>

\* reqwest::get builds a client with the default redirect policy, which
\* follows up to this many redirections before it fails.
DISCOVERY_REDIRECT_LIMIT == 10

\* reqwest::get answered by a redirection: the default client follows it by
\* itself with another GET (no Cookie header, the jar is not involved), or
\* fails when the limit is reached, and the expect of line 55 panics.  The
\* provider is taken to redirect to a new URL each time.
DiscoveryRedirect(d) ==
    /\ pc \in {"login_discovery", "renew_discovery"}
    /\ last' = d
    /\ IF req.redirects < DISCOVERY_REDIRECT_LIMIT
       THEN /\ req' = [req EXCEPT !.url = UrlParse(d.location[1]),
                                  !.redirects = @ + 1]
            /\ UNCHANGED <<jwt, cookies, pc, result, args, log, cb>>
       ELSE Returns(Panic("Failed to HTTP GET the discovery path"), jwt,
                    cookies)
    /\ UNCHANGED <<op, jwt0, cookies0, merged>>

\* What the discovery response does to the jar: reqwest::get never reads the
\* Set-Cookie headers of its response, the jar stays as it is.
DiscoveryReceiveMerging(jar, d) == MergeSetCookies(jar, d.setCookies).jar

DiscoveryReceive(jar, d) == jar

\* The last step of both operations: handle_callback(callback_url).
Callback(callback_url, jar) ==
    LET h == handle_callback(jwt, jar, callback_url)
    IN  /\ jwt' = h.jwt
        /\ cookies' = h.cookies
        /\ result' = h.result
        /\ pc' = "idle"
        /\ req' = NoReq
        /\ args' = None
        /\ log' = Append(log, "callback")
        /\ cb' = Some([url |-> callback_url, jwt |-> jwt, cookies |-> jar])

\* login(username, password), line 112: auth_login_info starts.
CallLogin(username, password) ==
    Enter("login", Some([username |-> username, password |-> password]),
          "login_discovery")

\* auth_login_info, lines 146-147: the authorization URL is built and GET.
LoginDiscoveryResp(d, state, nonce, clientOk) ==
    /\ pc = "login_discovery"
    /\ last' = d
    /\ LET a == auth_endpoint_uri(d, state, nonce)
       IN  IF ~a.ok THEN Returns(Panic(a.msg), jwt, DiscoveryReceive(cookies, d))
           ELSE HttpSend("login_auth_get", "GET", a.url, EmptyMap,
                         DiscoveryReceive(cookies, d), clientOk,
                         "GET authorize")
    /\ UNCHANGED <<op, jwt0, cookies0, merged>>

\* auth_login_info, lines 147-148: the redirect of the authorization GET is
\* followed to the login page.
LoginAuthGetResp(r, clientOk) ==
    /\ pc = "login_auth_get"
    /\ last' = r
    /\ LET x == HttpReceive(cookies, r)
           u == get_redirect_url(r)
       IN  IF ~x.ok THEN Returns(x.result, jwt, x.jar)
           ELSE IF ~u.ok THEN Returns(Err(u.msg), jwt, x.jar)
           ELSE HttpSend("login_page_get", "GET", u.url, EmptyMap, x.jar,
                         clientOk, "GET login page")
    /\ UNCHANGED <<op, jwt0, cookies0, merged>>

\* auth_login_info, lines 148-152, then login, lines 113-115: the page is
\* scraped and the credentials are posted with the anti-forgery field.
LoginPageResp(r, clientOk) ==
    /\ pc = "login_page_get"
    /\ last' = r
    /\ LET x == HttpReceive(cookies, r)
           s == Scrape(r)
       IN  IF ~x.ok THEN Returns(x.result, jwt, x.jar)
           ELSE IF ~s.ok THEN Returns(Err(s.msg), jwt, x.jar)
           ELSE IF ~full_auth_url(s.info.login_url).ok
           THEN Returns(Panic("Unable to join URL's"), jwt, x.jar)
           ELSE HttpSend("login_post", "POST",
                         full_auth_url(s.info.login_url),
                         build_login_params(s.info.anti_forgery,
                                            args[1].username,
                                            args[1].password),
                         x.jar, clientOk, "POST login")
    /\ UNCHANGED <<op, jwt0, cookies0, merged>>

\* login, lines 115-120: the POST must be answered by a redirection, whose
\* Location is followed with a GET.
LoginPostResp(r, clientOk) ==
    /\ pc = "login_post"
    /\ last' = r
    /\ LET x == HttpReceive(cookies, r)
           u == get_redirect_url(r)
       IN  IF ~x.ok THEN Returns(x.result, jwt, x.jar)
           ELSE IF ~is_redirection(r.status)
           THEN Returns(Err("Invalid credentials"), jwt, x.jar)
           ELSE IF ~u.ok THEN Returns(Err(u.msg), jwt, x.jar)
           ELSE HttpSend("login_follow_get", "GET", u.url, EmptyMap, x.jar,
                         clientOk, "GET follow")
    /\ UNCHANGED <<op, jwt0, cookies0, merged>>

\* login, lines 120-121: the Location of that GET is the callback URL.
LoginFollowResp(r) ==
    /\ pc = "login_follow_get"
    /\ last' = r
    /\ LET x == HttpReceive(cookies, r)
           u == get_redirect_url(r)
       IN  IF ~x.ok THEN Returns(x.result, jwt, x.jar)
           ELSE IF ~u.ok THEN Returns(Err(u.msg), jwt, x.jar)
           ELSE Callback(u.url, x.jar)
    /\ UNCHANGED <<op, jwt0, cookies0, merged>>

\* The guard of renew, line 125.
RenewAllowedAlways(j) == TRUE

RenewAllowed(j) == ~IsNone(j)

\* renew(), lines 125-128: without a token it returns at once; with one the
\* discovery document is fetched.
CallRenew ==
    IF RenewAllowed(jwt)
    THEN Enter("renew", None, "renew_discovery")
    ELSE /\ pc = "idle"
         /\ op' = "renew"
         /\ jwt0' = jwt
         /\ cookies0' = cookies
         /\ result' = Err("Please login first.")
         /\ cb' = None
         /\ last' = NoResponse
         /\ log' = << >>
         /\ UNCHANGED <<jwt, cookies, pc, args, req, merged>>

\* renew, lines 128-129: the authorization URL is built and GET.
RenewDiscoveryResp(d, state, nonce, clientOk) ==
    /\ pc = "renew_discovery"
    /\ last' = d
    /\ LET a == auth_endpoint_uri(d, state, nonce)
       IN  IF ~a.ok THEN Returns(Panic(a.msg), jwt, DiscoveryReceive(cookies, d))
           ELSE HttpSend("renew_auth_get", "GET", a.url, EmptyMap,
                         DiscoveryReceive(cookies, d), clientOk,
                         "GET authorize")
    /\ UNCHANGED <<op, jwt0, cookies0, merged>>

\* renew, lines 129-131: the Location of that GET is the callback URL.
RenewAuthGetResp(r) ==
    /\ pc = "renew_auth_get"
    /\ last' = r
    /\ LET x == HttpReceive(cookies, r)
           u == get_redirect_url(r)
       IN  IF ~x.ok THEN Returns(x.result, jwt, x.jar)
           ELSE IF ~u.ok THEN Returns(Err(u.msg), jwt, x.jar)
           ELSE Callback(u.url, x.jar)
    /\ UNCHANGED <<op, jwt0, cookies0, merged>>

Next ==
    \/ \E u \in Usernames, p \in Passwords : CallLogin(u, p)
    \/ \E d \in DiscoveryResponses, s, n \in RandomHex, c \in BOOLEAN :
            LoginDiscoveryResp(d, s, n, c)
    \/ \E r \in AuthGetResponses, c \in BOOLEAN : LoginAuthGetResp(r, c)
    \/ \E r \in PageResponses, c \in BOOLEAN : LoginPageResp(r, c)
    \/ \E r \in PostResponses, c \in BOOLEAN : LoginPostResp(r, c)
    \/ \E r \in FollowResponses : LoginFollowResp(r)
    \/ CallRenew
    \/ \E d \in DiscoveryResponses, s, n \in RandomHex, c \in BOOLEAN :
            RenewDiscoveryResp(d, s, n, c)
    \/ \E r \in FollowResponses : RenewAuthGetResp(r)
    \/ \E d \in DiscoveryRedirects : DiscoveryRedirect(d)

Spec == Init /\ [][Next]_vars

---------------------------------------------------------------------------
(* The cookie jar on its own: headers are merged one by one into a jar *)

MaxHdrs == 3

JarNames == {<<"a">>, <<"b">>}

JarValues == {<< >>, <<"1">>, <<"2", "=", "3">>}

\* name=value, bare or padded with whitespace and followed by attributes,
\* and two headers Cookie::parse rejects (no "=", empty name).
JarHeaders ==
    {n \o <<"=">> \o v : n \in JarNames, v \in JarValues}
    \cup {<<" ">> \o n \o <<" ", "=", " ">> \o v
              \o <<" ", ";", " ", "Path", "=", "/", ";", " ", "Secure">> :
          n \in JarNames, v \in JarValues}
    \cup {<<"garbage", ";", " ", "a", "=", "1">>, <<" ", "=", "1">>}

JarInits ==
    {EmptyMap,
     Insert(Insert(EmptyMap, <<"a">>, <<"0">>), <<"c">>, <<"x", "=", "y">>)}

InitJar ==
    /\ cookies \in JarInits
    /\ cookies0 = cookies
    /\ merged = << >>
    /\ pc = "jar"
    /\ jwt = None
    /\ op = "none"
    /\ args = None
    /\ req = NoReq
    /\ result = NoResult
    /\ jwt0 = None
    /\ log = << >>
    /\ last = NoResponse
    /\ cb = None

\* One iteration of the Set-Cookie loop: add_cookie(h).
JarAddCookie(h) ==
    /\ pc = "jar"
    /\ Len(merged) < MaxHdrs
    /\ LET a == add_cookie(cookies, h)
       IN  IF a.panic
           THEN /\ pc' = "jar_panicked"
                /\ result' = Panic("Unable to parse cookie")
                /\ UNCHANGED <<cookies, merged>>
           ELSE /\ cookies' = a.jar
                /\ merged' = Append(merged, h)
                /\ UNCHANGED <<pc, result>>
    /\ UNCHANGED <<jwt, op, args, req, jwt0, cookies0, log, last, cb>>

NextJar == \E h \in JarHeaders : JarAddCookie(h)

SpecJar == InitJar /\ [][NextJar]_vars

---------------------------------------------------------------------------
(* The provider of the end-to-end scenario *)

ScenarioSetCookies == {<< >>, <<H_idsrv1>>, <<H_a1>>, <<H_a1, H_idsrv2, H_a2>>}

ScenarioDiscovery ==
    [kind : {"response"}, status : {200}, location : {None},
     setCookies : {<< >>},
     body : {[readable |-> TRUE, modelJson |-> << >>,
              discovery |-> Some(<<"https://idp/auth">>)]}]

ScenarioAuthGet ==
    [kind : {"response"}, status : {302},
     location : {Some(<<"https://idp/login">>)},
     setCookies : ScenarioSetCookies, body : {EmptyBody}]

ScenarioPage ==
    [kind : {"response"}, status : {200}, location : {None},
     setCookies : ScenarioSetCookies,
     body : {Page(<<Blob(<<"/account/login">>)>>)}]

ScenarioPost ==
    [kind : {"response"}, status : {302},
     location : {Some(<<"https://idp/hop">>)},
     setCookies : ScenarioSetCookies, body : {EmptyBody}]

ScenarioFollow ==
    [kind : {"response"}, status : {302},
     location : {Some(<<CALLBACK, "#", "id_token", "=", "JWT123", "&",
                        "state", "=", st>>) : st \in RandomHex \cup {"xyz"}},
     setCookies : ScenarioSetCookies, body : {EmptyBody}]

\* idsrv has been set by a Set-Cookie no later than the last response.
IdsrvCaptured(r) == IDSRV \in DOMAIN MergeSetCookies(cookies, r.setCookies).jar

NextScenario ==
    \/ \E u \in Usernames, p \in Passwords : CallLogin(u, p)
    \/ \E d \in ScenarioDiscovery, s, n \in RandomHex :
            LoginDiscoveryResp(d, s, n, TRUE)
    \/ \E r \in ScenarioAuthGet : LoginAuthGetResp(r, TRUE)
    \/ \E r \in ScenarioPage : LoginPageResp(r, TRUE)
    \/ \E r \in ScenarioPost : LoginPostResp(r, TRUE)
    \/ \E r \in ScenarioFollow : IdsrvCaptured(r) /\ LoginFollowResp(r)

SpecScenario == Init /\ [][NextScenario]_vars

---------------------------------------------------------------------------
(* Properties *)

\* The running call has returned or unwound.
CallEnded == pc = "idle" /\ result.kind \in {"Ok", "Err", "Panic"}

CallFailed == pc = "idle" /\ result.kind \in {"Err", "Panic"}

\* The pieces key=value of a fragment, in order.
FragmentPieces(frag) == SplitOn(frag, "&")

HasKey(piece, key) ==
    /\ Len(piece) >= Len(key)
    /\ Slice(piece, 1, Len(key)) = key
    /\ (Len(piece) = Len(key) \/ piece[Len(key) + 1] = "=")

\* The value the fragment gives to key: that of its last key=value piece.
FragmentValue(frag, key) ==
    LET ps == FragmentPieces(frag)
        at == {i \in 1..Len(ps) : HasKey(ps[i], key)}
        i == CHOOSE k \in at : \A l \in at : l <= k
    IN  Slice(ps[i], Len(key) + 2, Len(ps[i]))

FragmentHasKey(frag, key) ==
    \E i \in 1..Len(FragmentPieces(frag)) : HasKey(FragmentPieces(frag)[i], key)

\* C1: whenever login or renew returns Ok, jwt is Some and the jar holds idsrv.
C1_OkImpliesTokenAndIdsrv ==
    (pc = "idle" /\ result = Ok) =>
        (~IsNone(jwt) /\ IDSRV \in DOMAIN cookies)

\* C1 witness: a renew that returned Ok and replaced the token.
C1_Witness ==
    /\ pc = "idle"
    /\ op = "renew"
    /\ result = Ok
    /\ ~IsNone(jwt0)
    /\ jwt # jwt0

\* C2: a login or renew call that does not return Ok leaves jwt as it was when
\* the call was entered, at whichever step it failed.
C2_FailureKeepsToken == CallFailed => jwt = jwt0

\* C3: renew on a Session without a token returns the precondition error at
\* once: no request is issued and jwt and the jar are as before.
C3_RenewWithoutToken ==
    (op = "renew" /\ IsNone(jwt0)) =>
        /\ pc = "idle"
        /\ result = Err("Please login first.")
        /\ log = << >>
        /\ req = NoReq
        /\ last = NoResponse
        /\ jwt = jwt0
        /\ cookies = cookies0

\* C3 witness: renew was refused on a Session whose jar is not empty.
C3_Witness ==
    /\ op = "renew"
    /\ IsNone(jwt0)
    /\ result.kind = "Err"
    /\ cookies # EmptyMap

\* The credential POST is being answered, by a response http_post returns.
PostAnswered ==
    /\ pc = "login_post"
    /\ last'.kind = "response"
    /\ MergeSetCookies(cookies, last'.setCookies).status = "ok"

\* C4: when http_post returns the response to the credential POST and its
\* status is not a redirection, login returns Err("Invalid credentials"): no
\* further request is issued, handle_callback is not reached, jwt is as it was.
C4_NonRedirectPostIsInvalidCredentials ==
    [][(PostAnswered /\ ~(last'.status \in 300..399)) =>
            /\ pc' = "idle"
            /\ result' = Err("Invalid credentials")
            /\ log' = log
            /\ req' = NoReq
            /\ cb' = None
            /\ jwt' = jwt
            /\ jwt' = jwt0']_vars

\* C4 witness: a fresh login ended with "Invalid credentials" on a 200.
C4_Witness ==
    /\ pc = "idle"
    /\ op = "login"
    /\ result = Err("Invalid credentials")
    /\ last.status = 200
    /\ IsNone(jwt0)
    /\ IsNone(jwt)

\* C5: a successful handle_callback sets jwt to the fragment's id_token value
\* and leaves the jar equal to {idsrv: v}, v the value held before the call.
C5_CallbackSetsTokenAndPrunes ==
    (pc = "idle" /\ result = Ok /\ ~IsNone(cb)) =>
        /\ ~IsNone(cb[1].url.frag)
        /\ jwt = Some(FragmentValue(cb[1].url.frag[1], ID_TOKEN))
        /\ DOMAIN cookies = {IDSRV}
        /\ IDSRV \in DOMAIN cb[1].cookies
        /\ cookies[IDSRV] = cb[1].cookies[IDSRV]

\* C5 witness: fragment id_token=ABC&state=xyz, a jar with idsrv and another
\* cookie; afterwards the token is ABC and the other cookie is gone.
C5_Witness ==
    /\ pc = "idle"
    /\ result = Ok
    /\ ~IsNone(cb)
    /\ cb[1].url.frag =
          Some(<<"id_token", "=", "ABC", "&", "state", "=", "xyz">>)
    /\ DOMAIN cb[1].cookies = {IDSRV, <<"a">>}
    /\ jwt = Some(<<"ABC">>)
    /\ cookies = Insert(EmptyMap, IDSRV, cb[1].cookies[IDSRV])

\* C6: handle_callback on a URL with no fragment or an empty fragment fails
\* with Err("Invalid callback") and leaves jwt and the jar unchanged.
C6_NoOrEmptyFragmentIsInvalidCallback ==
    (pc = "idle" /\ ~IsNone(cb) /\
     (IsNone(cb[1].url.frag) \/ cb[1].url.frag = Some(<< >>))) =>
        /\ result = Err("Invalid callback")
        /\ jwt = cb[1].jwt
        /\ cookies = cb[1].cookies

\* C7: handle_callback on a fragment without an id_token entry returns a
\* failure result (Err) to the caller, jwt unchanged and the jar not pruned.
C7_MissingIdTokenReturnsErr ==
    (pc = "idle" /\ ~IsNone(cb) /\ ~IsNone(cb[1].url.frag) /\
     ~FragmentHasKey(cb[1].url.frag[1], ID_TOKEN)) =>
        /\ result.kind = "Err"
        /\ jwt = cb[1].jwt
        /\ cookies = cb[1].cookies

\* The indices of the merged headers that set name n.
SetsOf(n) == {i \in 1..Len(merged) : CookieParse(merged[i]).name = n}

LastSetOf(n) == CHOOSE i \in SetsOf(n) : \A j \in SetsOf(n) : j <= i

\* C8: after merging headers h1..hn in arrival order, a name set by some
\* header maps to the value of the last header with that name, a name of the
\* jar set by no header keeps its value, and no other name is in the jar.
C8_MergeIsLastWriteWins ==
    /\ DOMAIN cookies =
          DOMAIN cookies0 \cup {CookieParse(merged[i]).name : i \in 1..Len(merged)}
    /\ \A n \in DOMAIN cookies :
          cookies[n] = IF SetsOf(n) = {} THEN cookies0[n]
                       ELSE CookieParse(merged[LastSetOf(n)]).value
    /\ MergeSetCookies(cookies0, merged) = [status |-> "ok", jar |-> cookies]

\* C8 witness: three headers merged, the first and the last setting the same
\* name to different values while the jar held that name and another before.
C8_Witness ==
    /\ Len(merged) = 3
    /\ CookieParse(merged[1]).name = <<"a">>
    /\ CookieParse(merged[2]).name = <<"b">>
    /\ CookieParse(merged[3]).name = <<"a">>
    /\ CookieParse(merged[1]).value # CookieParse(merged[3]).value
    /\ DOMAIN cookies0 = {<<"a">>, <<"c">>}
    /\ cookies[<<"a">>] = CookieParse(merged[3]).value
    /\ cookies[<<"c">>] = cookies0[<<"c">>]

\* The pieces of a Cookie header value between occurrences of "; ".
RECURSIVE SplitOnSeparator(_)
SplitOnSeparator(s) ==
    IF \E i \in 1..(Len(s) - 1) : s[i] = ";" /\ s[i + 1] = " "
    THEN LET i == CHOOSE k \in 1..(Len(s) - 1) :
                     /\ s[k] = ";" /\ s[k + 1] = " "
                     /\ \A l \in 1..(k - 1) : ~(s[l] = ";" /\ s[l + 1] = " ")
         IN  <<Slice(s, 1, i - 1)>> \o SplitOnSeparator(Slice(s, i + 2, Len(s)))
    ELSE <<s>>

\* The (name, value) pairs read back from a Cookie header value: each piece
\* split on its first "="; the empty piece after the trailing "; " is none.
ReparsePairs(header) ==
    LET ps == SplitOnSeparator(header)
    IN  {<<Slice(ps[i], 1, IndexOf(ps[i], "=") - 1),
           IF IndexOf(ps[i], "=") = 0 THEN <<"(no value)">>
           ELSE Slice(ps[i], IndexOf(ps[i], "=") + 1, Len(ps[i]))>> :
         i \in {k \in 1..Len(ps) : ps[k] # << >>}}

JarPairs(jar) == {<<n, jar[n]>> : n \in DOMAIN jar}

\* C9: for every jar and every header generate_cookie_header can produce from
\* it, splitting the header on "; " and each piece on its first "=" gives
\* back exactly the jar's (name, value) pairs.
C9_CookieHeaderRoundTrip ==
    \A h \in generate_cookie_header(cookies) :
        ReparsePairs(h) = JarPairs(cookies)

\* C9 witness: a jar of three cookies, one with an empty value and one whose
\* value holds "=", built by merging headers with attributes.
C9_Witness ==
    /\ pc = "jar"
    /\ Cardinality(DOMAIN cookies) = 3
    /\ \E n \in DOMAIN cookies : cookies[n] = << >>
    /\ \E n \in DOMAIN cookies : cookies[n] = <<"2", "=", "3">>
    /\ \E i \in 1..Len(merged) : IndexOf(merged[i], ";") # 0

LoginSteps ==
    <<"GET discovery", "GET authorize", "GET login page", "POST login",
      "GET follow", "callback">>

\* C10: with the provider of the end-to-end scenario, a login runs through its
\* steps in order without failing and, once it has returned, has returned Ok
\* with jwt = JWT123 and a jar that holds idsrv.
C10_ScenarioLoginSucceeds ==
    op = "login" =>
        /\ Len(log) <= Len(LoginSteps)
        /\ log = Slice(LoginSteps, 1, Len(log))
        /\ pc # "idle" => (result = Pending /\ Len(log) < Len(LoginSteps))
        /\ pc = "idle" =>
              /\ result = Ok
              /\ log = LoginSteps
              /\ jwt = Some(<<"JWT123">>)
              /\ IDSRV \in DOMAIN cookies

\* C10 witness: the scenario's login has gone through all its steps and
\* returned Ok with token JWT123, the jar holding idsrv and another cookie
\* when the callback URL was handled.
C10_Witness ==
    /\ pc = "idle"
    /\ op = "login"
    /\ result = Ok
    /\ jwt = Some(<<"JWT123">>)
    /\ IDSRV \in DOMAIN cookies
    /\ ~IsNone(cb)
    /\ <<"a">> \in DOMAIN cb[1].cookies
    /\ log = LoginSteps

\* C11: the token changes only inside the callback handler.  new() leaves it
\* None, and every step that changes jwt is the step that runs handle_callback
\* on the Location of the last response: the step records the call in cb and
\* appends "callback" to the log, and the new token is the one handle_callback
\* computes.  Entering a call, the discovery fetch (redirections included),
\* every GET/POST exchange, redirect extraction and scraping leave jwt alone.
C11_TokenChangesOnlyInCallback ==
    /\ IsNone(jwt)
    /\ [][(jwt' # jwt) =>
            /\ pc \in {"login_follow_get", "renew_auth_get"}
            /\ log' = Append(log, "callback")
            /\ ~IsNone(cb')
            /\ cb'[1].jwt = jwt
            /\ jwt' = handle_callback(jwt, cb'[1].cookies, cb'[1].url).jwt
            /\ pc' = "idle"]_vars

\* C11 witness: a login on an Unauthenticated Session went through all its
\* exchanges and its callback handler made the Session Authenticated.
C11_Witness ==
    /\ op = "login"
    /\ pc = "idle"
    /\ IsNone(jwt0)
    /\ ~IsNone(jwt)
    /\ ~IsNone(cb)
    /\ Len(log) = 6

\* The discovery fetch of the running call is in flight.
DiscoveryInFlight == pc \in {"login_discovery", "renew_discovery"}

\* C12: fetching the discovery document and building the authorization URL has
\* no side effect on the Session.  While the fetch is in flight the request
\* carries no Cookie header and no form, and jwt and the jar are those the call
\* was entered with; the step that starts it and every step that answers it (a
\* redirection, a document, a failure) leave jwt and the jar as they are,
\* whatever Set-Cookie headers the answer carries.
C12_DiscoveryHasNoSideEffect ==
    /\ [](DiscoveryInFlight =>
            /\ req.cookie = None
            /\ req.form = EmptyMap
            /\ jwt = jwt0
            /\ cookies = cookies0)
    /\ [][(DiscoveryInFlight \/ DiscoveryInFlight') =>
            /\ jwt' = jwt
            /\ cookies' = cookies]_vars

\* C12 witness: the discovery response of a login carried Set-Cookie: idsrv=..,
\* the authorization GET is now in flight and the jar, which held another
\* cookie before the call, has no idsrv.
C12_Witness ==
    /\ pc = "login_auth_get"
    /\ last.kind = "response"
    /\ last.setCookies = <<H_idsrv1>>
    /\ cookies # EmptyMap
    /\ IDSRV \notin DOMAIN cookies

\* A GET or POST of the session layer (http_get / http_post) is in flight.
SessionExchangeInFlight ==
    pc \in {"login_auth_get", "login_page_get", "login_post",
            "login_follow_get", "renew_auth_get"}

\* The Set-Cookie headers of hs the loop gets through: those before the first
\* one that is not a string or does not parse.
MergedHeaders(hs) ==
    LET bad == {i \in 1..Len(hs) : ~(ToStrOk(hs[i]) /\ CookieParse(hs[i]).ok)}
    IN  IF bad = {} THEN hs
        ELSE Slice(hs, 1, (CHOOSE i \in bad : \A j \in bad : i <= j) - 1)

\* The cookies the headers hs parse to, in arrival order.
ParsedHeaders(hs) == [i \in 1..Len(hs) |-> CookieParse(hs[i])]

\* The positions of the parsed headers ps that set the cookie named n.
SetCookiesOf(ps, n) == {i \in DOMAIN ps : ps[i].name = n}

\* C13: every session GET/POST sends the jar as it stands, and merges the
\* Set-Cookie headers of its response into the jar before the next step.
\* While an exchange is in flight its Cookie header is a rendering of the
\* current jar.  When its response arrives, the jar the next step works on
\* (the next request, the callback handler, or the caller after a failure)
\* holds every cookie the response set, with the value of the last header
\* setting it, and every older cookie, unchanged unless it was set again, and
\* nothing else; the next request of the call carries exactly that jar; a call
\* that ends without Ok leaves exactly that jar.  A failed exchange leaves
\* the jar as it was.
C13_ExchangeSendsAndMergesJar ==
    /\ [](SessionExchangeInFlight =>
            /\ ~IsNone(req.cookie)
            /\ req.cookie[1] \in generate_cookie_header(cookies))
    /\ [][(SessionExchangeInFlight /\ last'.kind = "failed") =>
            (cookies' = cookies /\ pc' = "idle")]_vars
    /\ [][(SessionExchangeInFlight /\ last'.kind = "response") =>
            \A ps \in {ParsedHeaders(MergedHeaders(last'.setCookies))} :
            \A after \in {IF cb' # cb THEN cb'[1].cookies ELSE cookies'} :
                /\ \A i \in DOMAIN ps :
                      /\ ps[i].name \in DOMAIN after
                      /\ \/ \E j \in SetCookiesOf(ps, ps[i].name) : j > i
                         \/ after[ps[i].name] = ps[i].value
                /\ \A n \in DOMAIN cookies :
                      /\ n \in DOMAIN after
                      /\ SetCookiesOf(ps, n) = {} => after[n] = cookies[n]
                /\ \A n \in DOMAIN after :
                      n \in DOMAIN cookies \/ SetCookiesOf(ps, n) # {}
                /\ SessionExchangeInFlight' =>
                      /\ cookies' = after
                      /\ ReparsePairs(req'.cookie[1]) = JarPairs(after)
                /\ (pc' = "idle" /\ result'.kind # "Ok") =>
                      cookies' = after]_vars

\* C13 witness: a login entered with an empty jar; the response to its
\* authorization GET set cookies, and the login-page GET now in flight
\* carries them.
C13_Witness ==
    /\ pc = "login_page_get"
    /\ cookies0 = EmptyMap
    /\ last.setCookies # << >>
    /\ ~IsNone(req.cookie)
    /\ req.cookie[1] # << >>
    /\ ReparsePairs(req.cookie[1]) = JarPairs(cookies)

\* The exchange of login that is in flight at each position of the call.
LoginExchangeAt ==
    [login_discovery |-> 1, login_auth_get |-> 2, login_page_get |-> 3,
     login_post |-> 4, login_follow_get |-> 5]

\* C14: a login issues its steps in one fixed order, each at most once:
\* discovery fetch, authorization GET, login-page GET, credential POST, GET of
\* the POST's Location, callback handler.  The steps taken so far are always a
\* prefix of that list and the request in flight is the last of them (the
\* redirections the discovery fetch follows by itself are part of that one
\* fetch).  The only POST is the credential POST: it is in flight only when
\* the login-page response just received was scraped successfully, and it
\* carries the credentials of the call and the scraped anti-forgery pair.  A
\* step that fails ends the call at once: nothing is in flight afterwards and
\* no step was added by the failing step.
C14_LoginStepsInFixedOrder ==
    /\ [](op = "login" =>
            /\ Len(log) <= Len(LoginSteps)
            /\ log = Slice(LoginSteps, 1, Len(log))
            /\ pc # "idle" =>
                  /\ result = Pending
                  /\ pc \in DOMAIN LoginExchangeAt
                  /\ Len(log) = LoginExchangeAt[pc]
                  /\ req.method = (IF pc = "login_post" THEN "POST" ELSE "GET")
                  /\ pc # "login_post" => req.form = EmptyMap
            /\ pc = "login_post" =>
                  /\ last.kind = "response"
                  /\ Scrape(last).ok
                  /\ DOMAIN req.form =
                         {"username", "password",
                          Scrape(last).info.anti_forgery.name}
                  /\ req.form["username"] = args[1].username
                  /\ req.form["password"] = args[1].password
                  /\ req.form[Scrape(last).info.anti_forgery.name] =
                         Scrape(last).info.anti_forgery.value
            /\ pc = "idle" =>
                  /\ req = NoReq
                  /\ result # Pending
                  /\ result = Ok => log = LoginSteps)
    /\ [][(op = "login" /\ pc # "idle" /\ op' = "login" /\ pc' = "idle"
           /\ result'.kind # "Ok") =>
            /\ req' = NoReq
            /\ log' = IF IsNone(cb') THEN log ELSE Append(log, "callback")]_vars
    /\ [][(op = "login" /\ pc # "idle" /\ last'.kind = "failed") =>
            (pc' = "idle" /\ result'.kind # "Ok" /\ log' = log)]_vars

\* C14 witness: the credential POST of a login is in flight, after a login
\* page whose last modelJson element was scraped and whose first was not
\* usable.
C14_Witness ==
    /\ op = "login"
    /\ pc = "login_post"
    /\ req.method = "POST"
    /\ Len(last.body.modelJson) = 2
    /\ "__RequestVerificationToken" \in DOMAIN req.form

RenewSteps == <<"GET discovery", "GET authorize", "callback">>

\* The names of the cookies a Cookie header value carries.
CookieNamesSent(header) == {p[1] : p \in ReparsePairs(header)}

\* C15: on a Session with a token, renew performs one discovery fetch and one
\* session GET of the authorization URL, which carries the idsrv cookie, sends
\* no POST and no form, and hands the Location of that response to the
\* callback handler; when it returns Ok the token is the id_token of that
\* Location and the jar is exactly {idsrv}.
C15_RenewSendsIdsrvOnce ==
    (op = "renew" /\ ~IsNone(jwt0)) =>
        /\ Len(log) <= Len(RenewSteps)
        /\ log = Slice(RenewSteps, 1, Len(log))
        /\ req.method \in {"GET", "none"}
        /\ req.form = EmptyMap
        /\ pc = "renew_auth_get" =>
              /\ ~IsNone(req.cookie)
              /\ IDSRV \in CookieNamesSent(req.cookie[1])
        /\ (pc = "idle" /\ result = Ok) =>
              /\ log = RenewSteps
              /\ cb[1].url = UrlParse(last.location[1])
              /\ jwt = Some(FragmentValue(cb[1].url.frag[1], ID_TOKEN))
              /\ DOMAIN cookies = {IDSRV}

\* A step that needs a redirection is being answered, by a response http_get
\* or http_post returns, and the response has no Location header.
AnsweredWithoutLocation ==
    /\ pc \in {"login_auth_get", "login_post", "login_follow_get",
               "renew_auth_get"}
    /\ last'.kind = "response"
    /\ MergeSetCookies(cookies, last'.setCookies).status = "ok"
    /\ IsNone(last'.location)

\* The call stops with the "expected redirection" error: no further request,
\* handle_callback not reached, jwt as it was.
StopsWithExpectedRedirection ==
    /\ pc' = "idle"
    /\ result' = Err("Invalid response from server, expected redirection")
    /\ req' = NoReq
    /\ log' = log
    /\ cb' = None
    /\ jwt' = jwt

\* C16 as stated: wherever a redirection is required (authorization GET,
\* credential POST, post-login GET, renew GET), a response without a Location
\* header makes the call stop with the "expected redirection" error, jwt
\* unchanged.
C16_MissingLocationIsExpectedRedirection ==
    [][AnsweredWithoutLocation => StopsWithExpectedRedirection]_vars

\* C16 amended: the same for the authorization GET, the post-login GET and the
\* renew GET whatever the status, and for the credential POST when its status
\* is a redirection (300..399); a credential POST answered with any other
\* status stops with "Invalid credentials" instead, Location or not.
C16_MissingLocationAfterStatusCheck ==
    [][AnsweredWithoutLocation =>
          IF pc = "login_post" /\ last'.status \notin 300..399
          THEN /\ pc' = "idle"
               /\ result' = Err("Invalid credentials")
               /\ jwt' = jwt
          ELSE StopsWithExpectedRedirection]_vars

\* C16 witness: the credential POST of a login was answered 302 without a
\* Location header and the login stopped with the "expected redirection"
\* error.
C16_Witness ==
    /\ op = "login"
    /\ pc = "idle"
    /\ log = Slice(LoginSteps, 1, 4)
    /\ last.kind = "response"
    /\ last.status = 302
    /\ IsNone(last.location)
    /\ result = Err("Invalid response from server, expected redirection")

\* C17: the login-page GET must be answered with status 200; a response with
\* any other status makes the scrape fail, and the login stops before a
\* credential POST is sent.
C17_LoginPageMustBe200 ==
    [][(pc = "login_page_get" /\ last'.kind = "response"
        /\ last'.status # 200) =>
            /\ pc' = "idle"
            /\ result'.kind \in {"Err", "Panic"}
            /\ req' = NoReq
            /\ log' = log]_vars

\* The pieces ps put together again with "&" between them.
RECURSIVE JoinPieces(_)
JoinPieces(ps) ==
    IF ps = << >> THEN << >>
    ELSE IF Len(ps) = 1 THEN ps[1]
    ELSE ps[1] \o <<"&">> \o JoinPieces(Tail(ps))

\* The fragment without its state and nonce entries.
WithoutStateAndNonce(frag) ==
    JoinPieces(SelectSeq(FragmentPieces(frag),
                         LAMBDA p : ~HasKey(p, <<"state">>)
                                    /\ ~HasKey(p, <<"nonce">>)))

\* The values tried for state and nonce: those add_auth_params can have sent
\* and two it cannot.
MarkerValues == RandomHex \cup {"xyz", "forged"}

\* The fragment with its state and nonce removed, or replaced by any values,
\* before or after the other entries.
MarkerVariants(frag) ==
    LET rest == WithoutStateAndNonce(frag)
    IN  {rest}
        \cup {JoinPieces(<<rest, <<"state", "=", s>>>>) : s \in MarkerValues}
        \cup {JoinPieces(<<<<"state", "=", s>>, rest>>) : s \in MarkerValues}
        \cup {JoinPieces(<<rest, <<"state", "=", s>>, <<"nonce", "=", n>>>>) :
                s \in MarkerValues, n \in MarkerValues}

\* C18: the state and nonce sent with the authorization URL are never compared
\* with the callback.  Whenever handle_callback has run on a URL with a
\* fragment, its outcome (result, token and jar) is the one it has on the same
\* Session for the fragment with state and nonce removed, and for the fragment
\* with any other state and nonce in their place.
C18_CallbackIgnoresStateAndNonce ==
    (pc = "idle" /\ ~IsNone(cb) /\ ~IsNone(cb[1].url.frag)) =>
        \A f \in MarkerVariants(cb[1].url.frag[1]) :
            LET h == handle_callback(cb[1].jwt, cb[1].cookies,
                                     [cb[1].url EXCEPT !.frag = Some(f)])
            IN  /\ h.result = result
                /\ h.jwt = jwt
                /\ h.cookies = cookies

\* C18 witness: a renew returned Ok on a callback whose fragment carries
\* state=xyz, a value add_auth_params cannot have sent.
C18_Witness ==
    /\ op = "renew"
    /\ pc = "idle"
    /\ result = Ok
    /\ ~IsNone(cb)
    /\ FragmentHasKey(cb[1].url.frag[1], <<"state">>)
    /\ FragmentValue(cb[1].url.frag[1], <<"state">>) = <<"xyz">>
    /\ "xyz" \notin RandomHex

\* C19: in every state reachable from new() by login and renew calls, whether
\* they returned Ok, returned Err or stopped part-way, a Session with a token
\* has idsrv in its jar.
C19_TokenImpliesIdsrv == ~IsNone(jwt) => IDSRV \in DOMAIN cookies

\* The HTTP requests the running or last call is known to have issued: those
\* of its steps, and the redirections followed for the request in flight.
ExchangesIssued ==
    Len(SelectSeq(log, LAMBDA s : s # "callback")) + req.redirects

====
